---- MODULE Spec2Model ----
(***************************************************************************)
(* Model of the HSuite DEX provider client (src/unnamed/part_002):         *)
(* the socket's listener registry, the authentication handshake of         *)
(* smartNodeSocket, and the two correlated sends swapTransactionRequest    *)
(* and swapTransactionExecute with their handlers and 30 s timers.         *)
(*                                                                         *)
(* JavaScript runs one callback at a time, so every action below is one    *)
(* complete callback (or one synchronous call) of the program.             *)
(***************************************************************************)
EXTENDS Integers, Sequences, FiniteSets, TLC

\* ------------------------------------------------------------------ bounds
MaxCalls == 2        \* send calls issued in one run
MaxChallenges == 1   \* 'authentication' challenges the node delivers
RandomSteps == 8     \* Math.random() returns r / RandomSteps, r in 0 .. RandomSteps - 1

CallIds == 1 .. MaxCalls

\* ------------------------------------------------------------ vocabularies
Ops == {"swapPoolRequest", "swapPoolExecute"}

Events == {"connect", "disconnect", "errors", "authenticate", "authentication",
           "error", "swapPoolRequest", "swapPoolExecute"}

\* the reason string socket.io passes to 'disconnect' listeners
Reasons == {"transport close", "io server disconnect"}

\* what an 'error' event may carry: an Error object, a string, or nothing
ErrorArgs == {"object", "string", "undefined"}

\* the arguments a caller may hand to a send
ArgKinds == {"valid", "invalid", "throws"}

\* responses the node may deliver on an operation's event: a value that is no
\* object, a success with or without payload, and failures whose error fields
\* exercise each level of the handlers' fallback chains; the first failure
\* names a code the client also uses for an error of its own
Response(obj, status, payload, error, message, errorCode, code) ==
    [obj |-> obj, status |-> status, payload |-> payload, error |-> error,
     message |-> message, errorCode |-> errorCode, code |-> code]

Responses ==
    { Response(FALSE, "none", FALSE, "none", "none", "none", "none"),
      Response(TRUE, "success", TRUE, "none", "none", "none", "none"),
      Response(TRUE, "success", FALSE, "none", "none", "none", "none"),
      Response(TRUE, "error", FALSE, "E1", "M1", "SOCKET_DISCONNECT", "C1"),
      Response(TRUE, "error", FALSE, "none", "M1", "none", "C1"),
      Response(TRUE, "error", FALSE, "none", "none", "none", "none") }

\* challenges the node may deliver on 'authentication'; signedData may be missing
Challenge(signedData, payload, signature) ==
    [signedData |-> signedData, payload |-> payload, signature |-> signature]

Challenges == { Challenge(TRUE, "p1", "s1"), Challenge(TRUE, "p2", "s2"),
                Challenge(FALSE, "p1", "none") }

\* the catalog of Smart Nodes of each network; a url is the sequence of its
\* parts, the scheme first
nodes ==
    [mainnet |-> << [operator |-> "0.0.1786597", url |-> <<"https://", "mainnet-sn1.hsuite.network">>],
                    [operator |-> "0.0.1786598", url |-> <<"https://", "mainnet-sn2.hsuite.network">>],
                    [operator |-> "0.0.1786599", url |-> <<"https://", "mainnet-sn3.hsuite.network">>],
                    [operator |-> "0.0.1786344", url |-> <<"https://", "mainnet-sn4.hsuite.network">>],
                    [operator |-> "0.0.1786344", url |-> <<"https://", "mainnet-sn5.hsuite.network">>],
                    [operator |-> "0.0.1786345", url |-> <<"https://", "mainnet-sn6.hsuite.network">>],
                    [operator |-> "0.0.1786347", url |-> <<"https://", "mainnet-sn7.hsuite.network">>],
                    [operator |-> "0.0.1786365", url |-> <<"https://", "mainnet-sn8.hsuite.network">>] >>,
     testnet |-> << [operator |-> "0.0.467726", url |-> <<"https://", "testnet-sn1.hsuite.network">>],
                    [operator |-> "0.0.467732", url |-> <<"https://", "testnet-sn2.hsuite.network">>],
                    [operator |-> "0.0.467734", url |-> <<"https://", "testnet-sn3.hsuite.network">>],
                    [operator |-> "0.0.467737", url |-> <<"https://", "testnet-sn4.hsuite.network">>] >>]

Networks == {"mainnet", "testnet"}

\* the network keys main may be called with: the two of the catalog, and one
\* that is not in it
NetworkKeys == Networks \cup {"devnet"}

\* the values Math.random() may return, as numerators over RandomSteps
Draws == 0 .. RandomSteps - 1

\* the selection reading the testnet catalog whatever the network
RandomNode_Testnet(net, r) ==
    nodes["testnet"][((r * Len(nodes["testnet"])) \div RandomSteps) + 1]

\* nodes[network][Math.floor(Math.random() * nodes[network].length)]
RandomNode(net, r) == nodes[net][((r * Len(nodes[net])) \div RandomSteps) + 1]

NoNode == [operator |-> "none", url |-> <<>>]

\* String.prototype.replace(from, to) with a string pattern: the first
\* occurrence only
ReplaceFirst(s, from, to) ==
    IF \E i \in 1 .. Len(s) : s[i] = from
    THEN LET i == CHOOSE k \in 1 .. Len(s) :
                      s[k] = from /\ \A j \in 1 .. k - 1 : s[j] # from
         IN [s EXCEPT ![i] = to]
    ELSE s

\* SmartNodeSocket.init(path) leaving the scheme as it is
init_KeepsScheme(node, path) == node.url \o <<"/", path>>

\* SmartNodeSocket.init(path): the address handed to io()
init(node, path) ==
    ReplaceFirst(ReplaceFirst(node.url, "https://", "wss://"), "http://", "ws://")
        \o <<"/", path>>

\* getSocket calling init on every call
getSocket_AlwaysInit(sockets, node, path) == Append(sockets, init(node, path))

\* SmartNodeSocket.getSocket(path), on the addresses of the sockets the object
\* has created so far (none: this.socket is null)
getSocket(sockets, node, path) ==
    IF sockets = <<>> THEN Append(sockets, init(node, path)) ELSE sockets

VARIABLES
    network,           \* the network key main() was called with
    httpNode,          \* the node the axios client of smartNodeClient is bound to
    socketNode,        \* the node the SmartNodeSocket of smartNodeSocket is bound to
    mainPc,            \* position of main()
    socketConnection,  \* the global: FALSE is null, TRUE holds {message, socket}
    sock,              \* the socket.io socket of nodeSocket: its transport state
    listeners,         \* the socket's handler registry: event -> sequence of handlers
    authPromise,       \* the promise returned by smartNodeSocket
    calls,             \* per send call: op, hasResolved, timeout, promise
    wire,              \* messages the client emitted, in order
    crashed,           \* an exception escaped a listener: the process is gone
    challenges,        \* challenges delivered so far
    operatorKeyOk,     \* operator[network].private_key decodes (PrivateKey.fromString)
    obs,               \* observations of the run the properties are stated over
    ioUrls,            \* the addresses of the sockets nodeSocket created with io()
    mainPromise        \* the promise returned by main()

selection == <<network, httpNode, socketNode>>

vars == <<mainPc, socketConnection, sock, listeners, authPromise, calls, wire,
          crashed, challenges, operatorKeyOk, obs, network, httpNode, socketNode,
          ioUrls, mainPromise>>

\* ---------------------------------------------------------------- promises
\* state, the model's name of the settling site (kind), and of a rejection's
\* Error object: its code, its message or reason detail, and the names of the
\* properties assigned to it after construction (props)
Pending == [state |-> "pending", kind |-> "none", code |-> "none", reason |-> "none",
            props |-> {}]

Fulfilled(kind) ==
    [state |-> "fulfilled", kind |-> kind, code |-> "none", reason |-> "none",
     props |-> {}]

Rejected(kind, code, reason) ==
    [state |-> "rejected", kind |-> kind, code |-> code, reason |-> reason,
     props |-> {}]

\* error.<name> = ... for each name in props
WithProps(e, props) == [e EXCEPT !.props = props]

\* a promise's resolve/reject functions act on the first call only
Settle(p, outcome) == IF p.state = "pending" THEN outcome ELSE p

\* ------------------------------------------------------- listener registry
Handler(owner, h) == [owner |-> owner, h |-> h]

\* socket.on(event, handler)
on(ls, ev, hd) == [ls EXCEPT ![ev] = Append(@, hd)]

Remove(s, hd) ==
    LET Keep(x) == x # hd IN SelectSeq(s, Keep)

\* socket.off(event, handler)
off(ls, ev, hd) == [ls EXCEPT ![ev] = Remove(@, hd)]

NoListeners == [e \in Events |-> <<>>]

\* socket.removeAllListeners()
removeAllListeners(ls) == NoListeners

\* smartNodeSocket without its 'authentication' handler
AuthHandlers_NoChallenge == <<"connect", "disconnect", "errors", "authenticate">>

\* the five handlers smartNodeSocket registers, in source order
AuthHandlers == <<"connect", "disconnect", "errors", "authenticate", "authentication">>

\* ------------------------------------------------------------ send records
NoCall == [op |-> "none", hasResolved |-> FALSE, timeout |-> "unset",
           promise |-> Pending, settles |-> <<>>]

clearTimeout(t) == IF t = "pending" THEN "cleared" ELSE t

\* cleanup() calling socket.off('error') and socket.off('disconnect') without
\* the handler, which removes every listener of the event
cleanup_OffWithoutHandler(st, c) ==
    [st EXCEPT !.listeners =
        [off(@, st.calls[c].op, Handler(c, "responseHandler"))
            EXCEPT !["error"] = <<>>, !["disconnect"] = <<>>]]

\* cleanup() without its third socket.off
cleanup_KeepsDisconnect(st, c) ==
    [st EXCEPT !.listeners =
        off(off(@, st.calls[c].op, Handler(c, "responseHandler")),
            "error", Handler(c, "errorHandler"))]

\* cleanup() removing every listener of the socket
cleanup_RemoveAllListeners(st, c) ==
    [st EXCEPT !.listeners = removeAllListeners(@)]

\* cleanup(): the three socket.off calls of a send
cleanup(st, c) ==
    [st EXCEPT !.listeners =
        off(off(off(@, st.calls[c].op, Handler(c, "responseHandler")),
                "error", Handler(c, "errorHandler")),
            "disconnect", Handler(c, "disconnectHandler"))]

\* originalResolve / originalReject: the promise's own settle functions
originalSettle(st, c, outcome) ==
    [st EXCEPT !.calls[c].promise = Settle(@, outcome),
               !.calls[c].settles = Append(@, outcome.kind)]

\* the wrapped resolve and reject: cleanup(), then the original
resolve(st, c, outcome) == originalSettle(cleanup(st, c), c, outcome)

reject(st, c, outcome) == originalSettle(cleanup(st, c), c, outcome)

\* hasResolved = true; clearTimeout(timeout);
MarkResolved(st, c) ==
    [st EXCEPT !.calls[c].hasResolved = TRUE,
               !.calls[c].timeout = clearTimeout(@)]

\* ------------------------------------------------------ handlers of a send
DefaultMessage(op) ==
    IF op = "swapPoolRequest" THEN "Unknown error occurred during swap request"
    ELSE "Unknown error occurred during swap execution"

DefaultCode(op) ==
    IF op = "swapPoolRequest" THEN "SWAP_REQUEST_ERROR" ELSE "SWAP_EXECUTION_ERROR"

\* a || b || c on strings, "none" standing for a missing (falsy) field
OrElse(a, b, c) == IF a # "none" THEN a ELSE IF b # "none" THEN b ELSE c

\* the else branch rejecting with a plain Error(errorMessage)
ServerError_Plain(op, response) ==
    Rejected("SERVER", "none",
             OrElse(response.error, response.message, DefaultMessage(op)))

\* the else branch reading response.code before response.errorCode, and
\* response.message before response.error
ServerError_CodeFirst(op, response) ==
    WithProps(Rejected("SERVER",
                       OrElse(response.code, response.errorCode, DefaultCode(op)),
                       OrElse(response.message, response.error, DefaultMessage(op))),
              {"code", "response"})

\* the else branch of both response handlers: error from the response's fields
ServerError(op, response) ==
    WithProps(Rejected("SERVER",
                       OrElse(response.errorCode, response.code, DefaultCode(op)),
                       OrElse(response.error, response.message, DefaultMessage(op))),
              {"code", "response"})

\* responseHandler without `hasResolved = true; clearTimeout(timeout)`
responseHandlerRequest_NoMark(st, c, response) ==
    IF st.calls[c].hasResolved THEN st
    ELSE IF ~response.obj
         THEN reject(st, c, Rejected("INVALID_FORMAT", "none", "none"))
         ELSE IF response.status = "success"
              THEN IF ~response.payload
                   THEN reject(st, c, Rejected("MISSING_PAYLOAD", "none", "none"))
                   ELSE resolve(st, c, Fulfilled("payload"))
              ELSE reject(st, c, ServerError("swapPoolRequest", response))

\* responseHandler of swapTransactionRequest
responseHandlerRequest(st, c, response) ==
    IF st.calls[c].hasResolved THEN st
    ELSE LET s1 == MarkResolved(st, c) IN
         IF ~response.obj
         THEN reject(s1, c, Rejected("INVALID_FORMAT", "none", "none"))
         ELSE IF response.status = "success"
              THEN IF ~response.payload
                   THEN reject(s1, c, Rejected("MISSING_PAYLOAD", "none", "none"))
                   ELSE resolve(s1, c, Fulfilled("payload"))
              ELSE reject(s1, c, ServerError("swapPoolRequest", response))

\* responseHandler of swapTransactionExecute
responseHandlerExecute(st, c, response) ==
    IF st.calls[c].hasResolved THEN st
    ELSE LET s1 == MarkResolved(st, c) IN
         IF ~response.obj
         THEN reject(s1, c, Rejected("INVALID_FORMAT", "none", "none"))
         ELSE IF response.status = "success"
              THEN resolve(s1, c, Fulfilled("response"))
              ELSE reject(s1, c, ServerError("swapPoolExecute", response))

\* errorHandler: `error.message || error` throws a TypeError when the event
\* carries no value, after hasResolved was set and the timer cleared
errorHandler(st, c, error) ==
    IF st.calls[c].hasResolved THEN st
    ELSE LET s1 == MarkResolved(st, c) IN
         IF error = "undefined"
         THEN [s1 EXCEPT !.thrown = TRUE]
         ELSE reject(s1, c, WithProps(Rejected("SOCKET_ERROR", "SOCKET_ERROR",
                                               "error text"),
                                      {"code", "originalError"}))

\* disconnectHandler without `disconnectError.reason = reason`
disconnectHandler_NoReason(st, c, reason) ==
    IF st.calls[c].hasResolved THEN st
    ELSE reject(MarkResolved(st, c), c,
                WithProps(Rejected("SOCKET_DISCONNECT", "SOCKET_DISCONNECT", "none"),
                          {"code"}))

\* disconnectHandler
disconnectHandler(st, c, reason) ==
    IF st.calls[c].hasResolved THEN st
    ELSE reject(MarkResolved(st, c), c,
                WithProps(Rejected("SOCKET_DISCONNECT", "SOCKET_DISCONNECT", reason),
                          {"code", "reason"}))

\* the setTimeout callback with its guard inverted
timeoutCallback_Inverted(st, c) ==
    IF st.calls[c].hasResolved
    THEN reject([st EXCEPT !.calls[c].hasResolved = TRUE], c,
                Rejected("TIMEOUT", "none", "none"))
    ELSE st

\* the setTimeout callback
timeoutCallback(st, c) ==
    IF ~st.calls[c].hasResolved
    THEN reject([st EXCEPT !.calls[c].hasResolved = TRUE], c,
                Rejected("TIMEOUT", "none", "none"))
    ELSE st

\* --------------------------------------------- handlers of smartNodeSocket
\* operator[network].id, read from the environment
operatorId == "OPERATOR_ID"

\* the 'authenticate' handler with its test inverted
onAuthenticate_Inverted(st, event) ==
    IF ~event
    THEN [st EXCEPT !.authPromise = Settle(@, Fulfilled("authenticated"))]
    ELSE [st EXCEPT !.authPromise =
              Settle(@, Rejected("AUTH_FAILED", "none", operatorId))]

\* the 'authenticate' handler resolving whatever the verdict
onAuthenticate_AlwaysResolves(st, event) ==
    [st EXCEPT !.authPromise = Settle(@, Fulfilled("authenticated"))]

\* socket.on('authenticate'): the verdict; the rejection's message names
\* operator[network].id
onAuthenticate(st, event) ==
    IF event
    THEN [st EXCEPT !.authPromise = Settle(@, Fulfilled("authenticated"))]
    ELSE [st EXCEPT !.authPromise =
              Settle(@, Rejected("AUTH_FAILED", "none", operatorId))]

\* the connection is in the protocol's Authenticated state: connected, and the
\* node's verdict on this connection was isValidSignature: true
Authenticated == sock = "connected" /\ obs.verdict = "valid"

\* a message handed to socket.emit, with what held when it was emitted: the
\* connection Authenticated, and the promise it belongs to already settled (late)
Message(ev, c, data, late) ==
    [ev |-> ev, call |-> c, data |-> data, auth |-> Authenticated, late |-> late]

\* the payload the handler builds from a challenge (the signature is a byte
\* array, which new Uint8Array() copies)
SignedPayload(event) ==
    [serverSignature |-> event.signature, originalPayload |-> event.payload]

\* Buffer.from(JSON.stringify(payload)): the bytes of the object's two members
\* in the order they were written
Stringify(payload) == <<"serverSignature", payload.serverSignature,
                        "originalPayload", payload.originalPayload>>

\* privateKey.sign(bytes) with the operator's key
Sign(bytes) == [key |-> "operator.private_key", over |-> bytes]

\* the handler logging what was thrown and leaving the promise alone
onAuthentication_SwallowsError(st, event) ==
    IF ~event.signedData \/ ~operatorKeyOk
    THEN st
    ELSE [st EXCEPT !.wire =
              Append(@, Message("authenticate", 0,
                                [signedPayload |-> SignedPayload(event),
                                 userSignature |-> Sign(Stringify(SignedPayload(event))),
                                 walletId |-> operatorId],
                                st.authPromise.state # "pending"))]

\* the 'authentication' handler signing the challenge's payload alone
onAuthentication_SignsChallengePayload(st, event) ==
    IF ~event.signedData \/ ~operatorKeyOk
    THEN [st EXCEPT !.authPromise =
              Settle(@, Rejected("AUTH_PROCESS_FAILED", "none", "none"))]
    ELSE [st EXCEPT !.wire =
              Append(@, Message("authenticate", 0,
                                [signedPayload |-> SignedPayload(event),
                                 userSignature |-> Sign(<<event.payload>>),
                                 walletId |-> operatorId],
                                st.authPromise.state # "pending"))]

\* socket.on('authentication'): sign the challenge and emit 'authenticate'
onAuthentication(st, event) ==
    IF ~event.signedData \/ ~operatorKeyOk
    THEN [st EXCEPT !.authPromise =
              Settle(@, Rejected("AUTH_PROCESS_FAILED", "none", "none"))]
    ELSE [st EXCEPT !.wire =
              Append(@, Message("authenticate", 0,
                                [signedPayload |-> SignedPayload(event),
                                 userSignature |-> Sign(Stringify(SignedPayload(event))),
                                 walletId |-> operatorId],
                                st.authPromise.state # "pending"))]

\* one listener called with the event's argument
RunHandler(st, hd, arg) ==
    IF hd.owner = 0
    THEN CASE hd.h = "authenticate" -> onAuthenticate(st, arg)
           [] hd.h = "authentication" -> onAuthentication(st, arg)
           [] OTHER -> st
    ELSE CASE hd.h = "responseHandler" ->
                 IF st.calls[hd.owner].op = "swapPoolRequest"
                 THEN responseHandlerRequest(st, hd.owner, arg)
                 ELSE responseHandlerExecute(st, hd.owner, arg)
           [] hd.h = "errorHandler" -> errorHandler(st, hd.owner, arg)
           [] hd.h = "disconnectHandler" -> disconnectHandler(st, hd.owner, arg)
           [] OTHER -> st

RECURSIVE RunAll(_, _, _)
RunAll(st, hs, arg) ==
    IF hs = <<>> \/ st.thrown THEN st
    ELSE RunAll(RunHandler(st, Head(hs), arg), Tail(hs), arg)

\* the emitter delivers an incoming event to a copy of the listener list, in
\* registration order; an exception in a listener ends the delivery
Deliver(st, ev, arg) == RunAll(st, st.listeners[ev], arg)

\* ------------------------------------------------------------- the sends
Emit(st, c) ==
    [st EXCEPT !.wire = Append(@, Message(st.calls[c].op, c, "request",
                                          st.calls[c].promise.state # "pending"))]

\* a send registering its response handler only
Register_ResponseOnly(st, c) ==
    [st EXCEPT !.listeners = on(@, st.calls[c].op, Handler(c, "responseHandler"))]

\* the three socket.on calls of a send
Register(st, c) ==
    [st EXCEPT !.listeners =
        on(on(on(@, st.calls[c].op, Handler(c, "responseHandler")),
              "error", Handler(c, "errorHandler")),
           "disconnect", Handler(c, "disconnectHandler"))]

\* the catch block of a send
InitiationFailed(st, c, wrapped) ==
    IF st.calls[c].hasResolved THEN st
    ELSE LET s1 == MarkResolved(st, c)
             e == WithProps(Rejected("INITIALIZATION_ERROR", "INITIALIZATION_ERROR",
                                     "none"),
                            {"code", "originalError"})
         IN IF wrapped THEN reject(s1, c, e) ELSE originalSettle(s1, c, e)

\* the validation rejecting through the promise's own reject, without cleanup
swapTransactionRequest_RejectsUnwrapped(st, c, args) ==
    LET s0 == [st EXCEPT !.calls[c] = [NoCall EXCEPT !.op = "swapPoolRequest"]] IN
    IF ~st.socketConnection
    THEN InitiationFailed(s0, c, FALSE)
    ELSE LET s1 == Register([s0 EXCEPT !.calls[c].timeout = "pending"], c) IN
         IF args = "invalid"
         THEN originalSettle(s1, c, Rejected("INVALID_ARGS", "none", "none"))
         ELSE Emit(s1, c)

\* swapTransactionRequest(senderId, swap): the synchronous body of the executor
swapTransactionRequest(st, c, args) ==
    LET s0 == [st EXCEPT !.calls[c] = [NoCall EXCEPT !.op = "swapPoolRequest"]] IN
    IF ~st.socketConnection
    THEN InitiationFailed(s0, c, FALSE)
    ELSE LET s1 == Register([s0 EXCEPT !.calls[c].timeout = "pending"], c) IN
         IF args = "invalid"
         THEN reject(s1, c, Rejected("INVALID_ARGS", "none", "none"))
         ELSE Emit(s1, c)

\* swapTransactionExecute(signedTransaction)
swapTransactionExecute(st, c, args) ==
    LET s0 == [st EXCEPT !.calls[c] = [NoCall EXCEPT !.op = "swapPoolExecute"]] IN
    IF ~st.socketConnection
    THEN InitiationFailed(s0, c, FALSE)
    ELSE LET s1 == Register([s0 EXCEPT !.calls[c].timeout = "pending"], c) IN
         IF args = "invalid"
         THEN reject(s1, c, Rejected("INVALID_ARGS", "none", "none"))
         ELSE IF args = "throws"
              THEN InitiationFailed(s1, c, TRUE)
              ELSE Emit(s1, c)

\* ------------------------------------------------------------------ state
NotCreated == [state |-> "none", kind |-> "none", code |-> "none", reason |-> "none",
               props |-> {}]

\* what is observed of a call: whether the connection was Authenticated when it
\* was issued, whether its timer fired while it was in flight, the socket
\* event ('error' or 'disconnect', with its argument) that fired while it was in
\* flight, alone or together with a call of the other operation, the
\* response delivered on its event while it was in flight with the send it
\* was produced for, and the earlier sends of its operation that had timed out
\* when it was issued
NoHit == [kind |-> "none", arg |-> "none", multi |-> FALSE]

NoResponse == Response(FALSE, "unanswered", FALSE, "none", "none", "none", "none")

NoObs == [auth |-> FALSE, timedOut |-> FALSE, hit |-> NoHit, resp |-> NoResponse,
          origin |-> 0, after |-> {}]

\* the module's state once loaded
Loaded ==
    /\ socketConnection = FALSE
    /\ sock = "none"
    /\ listeners = NoListeners
    /\ authPromise = NotCreated
    /\ calls = [c \in CallIds |-> NoCall]
    /\ wire = <<>>
    /\ crashed = FALSE
    /\ challenges = 0
    /\ operatorKeyOk \in BOOLEAN
    /\ httpNode = NoNode
    /\ ioUrls = <<>>
    /\ obs = [authFirst |-> "none", verdict |-> "none", authVerdict |-> "none",
              challenges |-> <<>>, selections |-> 0, authError |-> FALSE,
              paths |-> {},
              call |-> [c \in CallIds |-> NoObs]]

\* the state when main(network) is called, for a network key out of nets
Start(nets) ==
    /\ Loaded
    /\ mainPc = "start"
    /\ mainPromise = Pending
    /\ network \in nets
    /\ socketNode = NoNode

\* the program calls main('mainnet')
Init == Start({"mainnet"})

St == [calls |-> calls, listeners |-> listeners, authPromise |-> authPromise,
       wire |-> wire, thrown |-> FALSE, socketConnection |-> socketConnection]

Commit(st) ==
    /\ calls' = st.calls
    /\ listeners' = st.listeners
    /\ authPromise' = st.authPromise
    /\ wire' = st.wire
    /\ crashed' = st.thrown

Emitted(c) == \E i \in 1 .. Len(wire) : wire[i].call = c

Settled(c) == calls[c].promise.state # "pending"

\* request emitted, promise still pending
InFlight(c) == calls[c].op # "none" /\ ~Settled(c) /\ Emitted(c)

InFlightNow == {c \in CallIds : InFlight(c)}

\* the observation that socket event `kind` fired with `arg`
Hit(kind, arg) ==
    [c \in CallIds |->
        IF InFlight(c)
        THEN [obs.call[c] EXCEPT !.hit =
                 [kind |-> kind, arg |-> arg,
                  multi |-> \E d \in InFlightNow : calls[d].op # calls[c].op]]
        ELSE obs.call[c]]

\* the response delivered on op's event, and the send whose request the node
\* produced it for, are noted for the calls of op in flight
Answered(op, response, origin) ==
    [c \in CallIds |->
        IF InFlight(c) /\ calls[c].op = op
        THEN [obs.call[c] EXCEPT !.resp = response, !.origin = origin]
        ELSE obs.call[c]]

Unused(c) == calls[c].op = "none"

NextCall(c) == Unused(c) /\ \A d \in CallIds : d < c => ~Unused(d)

\* ---------------------------------------------------------------- main()
\* the TypeError of reading `.length` of nodes[network] for a key that is not
\* in the catalog
NoCatalog == Rejected("TypeError", "none", "Cannot read properties of undefined")

\* STEP 1: httpClientApi = await smartNodeClient(network); a throw inside
\* smartNodeClient rejects its promise, and main rejects through its outer catch
MainSmartNodeClient(r) ==
    /\ ~crashed /\ mainPc = "start"
    /\ IF network \in DOMAIN nodes
       THEN /\ httpNode' = RandomNode(network, r)
            /\ mainPc' = "step2"
            /\ UNCHANGED mainPromise
       ELSE /\ mainPc' = "rejected"
            /\ mainPromise' = Settle(mainPromise, NoCatalog)
            /\ UNCHANGED httpNode
    /\ UNCHANGED <<socketConnection, sock, listeners, authPromise, calls, wire,
                   crashed, challenges, operatorKeyOk, obs, network, socketNode,
                   ioUrls>>

\* STEP 2, the call: smartNodeSocket(network) selects a node, creates the
\* socket with the first getSocket call (io() starts connecting), registers its
\* five handlers and calls connect(); a throw rejects the promise
smartNodeSocket(r) ==
    /\ ~crashed /\ mainPc = "step2"
    /\ mainPc' = "awaitAuth"
    /\ IF network \in DOMAIN nodes
       THEN /\ socketNode' = RandomNode(network, r)
            /\ ioUrls' = getSocket(ioUrls, RandomNode(network, r), "gateway")
            /\ sock' = "connecting"
            /\ listeners' = [e \in Events |->
                                IF \E i \in 1 .. Len(AuthHandlers) : AuthHandlers[i] = e
                                THEN Append(listeners[e], Handler(0, e))
                                ELSE listeners[e]]
            /\ authPromise' = Pending
       ELSE /\ authPromise' = NoCatalog
            /\ UNCHANGED <<socketNode, ioUrls, sock, listeners>>
    /\ obs' = [obs EXCEPT !.selections = @ + 1]
    /\ UNCHANGED <<socketConnection, calls, wire, crashed, challenges,
                   operatorKeyOk, network, httpNode, mainPromise>>

\* a later nodeSocket.getSocket('gateway'): the socket a send or the finally
\* block works on
UseSocket == ioUrls' = getSocket(ioUrls, socketNode, "gateway")

\* STEP 2, the await: socketConnection = await smartNodeSocket(network)
MainAwaitAuth ==
    /\ ~crashed /\ mainPc = "awaitAuth"
    /\ authPromise.state \in {"fulfilled", "rejected"}
    /\ IF authPromise.state = "fulfilled"
       THEN socketConnection' = TRUE /\ mainPc' = "step5" /\ UNCHANGED mainPromise
       ELSE /\ socketConnection' = socketConnection /\ mainPc' = "rejected"
            /\ mainPromise' = Settle(mainPromise, authPromise)
    /\ UNCHANGED <<sock, listeners, authPromise, calls, wire, crashed, challenges,
                   operatorKeyOk, selection, ioUrls, obs>>

\* STEP 6, the finally block once the awaited sends have settled:
\* socket.removeAllListeners(); socket.disconnect()
MainCleanup ==
    /\ ~crashed /\ mainPc = "step5"
    /\ \E c \in CallIds : ~Unused(c)
    /\ \A c \in CallIds : Unused(c) \/ Settled(c)
    /\ mainPc' = "done"
    /\ mainPromise' = Settle(mainPromise, Fulfilled("all done"))
    /\ UseSocket
    /\ listeners' = removeAllListeners(listeners)
    /\ sock' = "closed"
    /\ obs' = [obs EXCEPT !.verdict = "none"]
    /\ UNCHANGED <<socketConnection, authPromise, calls, wire, crashed, challenges,
                   operatorKeyOk, selection>>

\* ------------------------------------------------ main's own steps 2 to 6
\* the finally block: socket.removeAllListeners(); socket.disconnect()
Finally ==
    /\ UseSocket
    /\ listeners' = removeAllListeners(listeners)
    /\ sock' = "closed"
    /\ obs' = [obs EXCEPT !.verdict = "none"]
    /\ UNCHANGED <<calls, authPromise, wire, crashed>>

\* socketConnection.socket.getSocket('gateway') at the head of a send, reached
\* when socketConnection is set
SendSocket(conn) ==
    ioUrls' = IF conn THEN getSocket(ioUrls, socketNode, "gateway") ELSE ioUrls

\* what is noted when call c of op is issued: whether the connection is
\* Authenticated, and the earlier sends of op that have timed out
Issued(c, op) ==
    [obs EXCEPT !.call[c].auth = Authenticated,
                !.call[c].after = {d \in CallIds : /\ calls[d].op = op
                                                   /\ calls[d].promise.kind = "TIMEOUT"}]

\* the continuation of `await smartNodeSocket(network)`: a rejection leaves
\* main through the outer catch; otherwise socketConnection is set, STEP 3
\* hands the operator's key to the Hedera client (which throws on a key that
\* does not decode, outside the inner try), and STEP 5.1 calls
\* swapTransactionRequest
MainAfterAuth ==
    /\ ~crashed /\ mainPc = "awaitAuth"
    /\ authPromise.state \in {"fulfilled", "rejected"}
    /\ IF authPromise.state = "rejected"
       THEN /\ mainPc' = "rejected"
            /\ mainPromise' = Settle(mainPromise, authPromise)
            /\ UNCHANGED <<socketConnection, calls, listeners, authPromise, wire,
                           crashed, obs, ioUrls>>
       ELSE /\ socketConnection' = TRUE
            /\ IF ~operatorKeyOk
               THEN /\ mainPc' = "rejected"
                    /\ mainPromise' =
                           Settle(mainPromise, Rejected("OPERATOR_KEY", "none", "none"))
                    /\ UNCHANGED <<calls, listeners, authPromise, wire, crashed, obs,
                                   ioUrls>>
               ELSE /\ mainPc' = "await51"
                    /\ SendSocket(TRUE)
                    /\ Commit(swapTransactionRequest(
                                  [St EXCEPT !.socketConnection = TRUE], 1, "valid"))
                    /\ obs' = Issued(1, "swapPoolRequest")
                    /\ UNCHANGED mainPromise
    /\ UNCHANGED <<sock, challenges, operatorKeyOk, selection>>

\* the continuation of `await swapTransactionRequest(...)`: on success STEP 5.2
\* decodes the transaction bytes of the payload (txOk: they decode) and starts
\* signing; a rejection or a throw runs the catch and the finally block
MainAfterRequest(txOk) ==
    /\ ~crashed /\ mainPc = "await51" /\ Settled(1)
    /\ IF calls[1].promise.state = "fulfilled" /\ txOk
       THEN /\ mainPc' = "await52"
            /\ UNCHANGED <<sock, listeners, calls, authPromise, wire, crashed, obs,
                           ioUrls, mainPromise>>
       ELSE /\ mainPc' = "rejected"
            /\ mainPromise' =
                   Settle(mainPromise,
                          IF calls[1].promise.state = "rejected" THEN calls[1].promise
                          ELSE Rejected("TRANSACTION_BYTES", "none", "none"))
            /\ Finally
    /\ UNCHANGED <<socketConnection, challenges, operatorKeyOk, selection>>

\* MainAfterSign calling swapTransactionExecute whatever the request's outcome
MainAfterSign_Unconditional ==
    /\ ~crashed /\ mainPc \in {"await51", "await52"}
    /\ mainPc' = "await53"
    /\ SendSocket(socketConnection)
    /\ Commit(swapTransactionExecute(St, 2, "valid"))
    /\ obs' = Issued(2, "swapPoolExecute")
    /\ UNCHANGED <<socketConnection, sock, challenges, operatorKeyOk, selection,
                   mainPromise>>

\* the continuation of `await transaction.sign(...)`: STEP 5.3 calls
\* swapTransactionExecute(signedTransaction)
MainAfterSign ==
    /\ ~crashed /\ mainPc = "await52"
    /\ mainPc' = "await53"
    /\ SendSocket(socketConnection)
    /\ Commit(swapTransactionExecute(St, 2, "valid"))
    /\ obs' = Issued(2, "swapPoolExecute")
    /\ UNCHANGED <<socketConnection, sock, challenges, operatorKeyOk, selection,
                   mainPromise>>

\* main resolving after step 5.3 whatever the outcome of swapTransactionExecute
MainAfterExecute_AlwaysDone ==
    /\ ~crashed /\ mainPc = "await53" /\ Settled(2)
    /\ mainPc' = "done"
    /\ mainPromise' = Settle(mainPromise, Fulfilled("all done"))
    /\ Finally
    /\ UNCHANGED <<socketConnection, challenges, operatorKeyOk, selection>>

\* the continuation of `await swapTransactionExecute(...)`: the finally block,
\* then resolve('all done') or, after the catch rethrew, reject(error)
MainAfterExecute ==
    /\ ~crashed /\ mainPc = "await53" /\ Settled(2)
    /\ mainPc' = IF calls[2].promise.state = "fulfilled" THEN "done" ELSE "rejected"
    /\ mainPromise' = Settle(mainPromise,
                             IF calls[2].promise.state = "fulfilled"
                             THEN Fulfilled("all done") ELSE calls[2].promise)
    /\ Finally
    /\ UNCHANGED <<socketConnection, challenges, operatorKeyOk, selection>>

\* the exit code the program ends with: process.exit(0) from main's then,
\* process.exit(1) from its catch, 1 as well for an exception nobody caught,
\* and none (-1) while main is pending
ExitCode ==
    IF crashed THEN 1
    ELSE CASE mainPromise.state = "fulfilled" -> 0
           [] mainPromise.state = "rejected" -> 1
           [] OTHER -> -1

\* ------------------------------------------------------- calls of the sends
\* main() runs to its first suspension (the await of smartNodeSocket) when the
\* module is loaded, before any other caller or callback can run
CallSwapTransactionRequest(c, args) ==
    /\ ~crashed /\ NextCall(c)
    /\ mainPc \notin {"start", "step2"}
    /\ SendSocket(socketConnection)
    /\ Commit(swapTransactionRequest(St, c, args))
    /\ obs' = Issued(c, "swapPoolRequest")
    /\ UNCHANGED <<mainPc, socketConnection, sock, challenges, operatorKeyOk,
                   selection, mainPromise>>

CallSwapTransactionExecute(c, args) ==
    /\ ~crashed /\ NextCall(c)
    /\ mainPc \notin {"start", "step2"}
    /\ SendSocket(socketConnection)
    /\ Commit(swapTransactionExecute(St, c, args))
    /\ obs' = Issued(c, "swapPoolExecute")
    /\ UNCHANGED <<mainPc, socketConnection, sock, challenges, operatorKeyOk,
                   selection, mainPromise>>

\* the 30 s timer of call c fires
TimerFire(c) ==
    /\ ~crashed /\ calls[c].timeout = "pending"
    /\ Commit(timeoutCallback([St EXCEPT !.calls[c].timeout = "fired"], c))
    /\ obs' = [obs EXCEPT !.call[c].timedOut = InFlight(c)]
    /\ UNCHANGED <<mainPc, socketConnection, sock, challenges, operatorKeyOk, selection, ioUrls, mainPromise>>

\* ------------------------------------------------- events from the socket
\* the transport confirms the connection: 'connect'
Connect ==
    /\ ~crashed /\ sock = "connecting"
    /\ sock' = "connected"
    /\ Commit(Deliver(St, "connect", "none"))
    /\ UNCHANGED <<mainPc, socketConnection, challenges, operatorKeyOk, selection, ioUrls, mainPromise, obs>>

\* the node sends its challenge: 'authentication'
ChallengeEvent(ch) ==
    /\ ~crashed /\ sock = "connected" /\ challenges < MaxChallenges
    /\ challenges' = challenges + 1
    /\ Commit(Deliver(St, "authentication", ch))
    /\ obs' = [obs EXCEPT !.challenges = Append(@, ch)]
    /\ UNCHANGED <<mainPc, socketConnection, sock, operatorKeyOk, selection, ioUrls, mainPromise>>

\* the node sends its verdict: 'authenticate' {isValidSignature}
Verdict(isValidSignature) ==
    /\ ~crashed /\ sock = "connected"
    /\ Commit(Deliver(St, "authenticate", isValidSignature))
    /\ obs' = [obs EXCEPT
                 !.verdict = IF @ # "none" THEN @
                             ELSE IF isValidSignature THEN "valid" ELSE "invalid",
                 !.authFirst = IF @ = "none" /\ authPromise.state = "pending"
                               THEN "verdict" ELSE @,
                 !.authVerdict = IF authPromise.state # "pending" THEN @
                                 ELSE IF isValidSignature THEN "valid" ELSE "invalid"]
    /\ UNCHANGED <<mainPc, socketConnection, sock, challenges, operatorKeyOk, selection, ioUrls, mainPromise>>

\* the connection drops: 'disconnect' with its reason; socket.io reconnects by
\* itself unless the server closed the socket
Disconnect(reason) ==
    /\ ~crashed /\ sock = "connected"
    /\ sock' = IF reason = "io server disconnect" THEN "closed" ELSE "connecting"
    /\ Commit(Deliver(St, "disconnect", reason))
    /\ obs' = [obs EXCEPT
                 !.verdict = "none",
                 !.authFirst = IF @ = "none" /\ authPromise.state = "pending"
                               THEN "disconnect" ELSE @,
                 !.call = Hit("disconnect", reason)]
    /\ UNCHANGED <<mainPc, socketConnection, challenges, operatorKeyOk, selection, ioUrls, mainPromise>>

\* an 'error' event on the socket
SocketError(error) ==
    /\ ~crashed /\ sock \in {"connecting", "connected"}
    /\ Commit(Deliver(St, "error", error))
    /\ obs' = [obs EXCEPT !.call = Hit("error", error)]
    /\ UNCHANGED <<mainPc, socketConnection, sock, challenges, operatorKeyOk, selection, ioUrls, mainPromise>>

\* the node reports an error of its own: 'errors'
ErrorsEvent ==
    /\ ~crashed /\ sock = "connected"
    /\ Commit(Deliver(St, "errors", "none"))
    /\ obs' = [obs EXCEPT !.authError = @ \/ authPromise.state = "pending"]
    /\ UNCHANGED <<mainPc, socketConnection, sock, challenges, operatorKeyOk,
                   selection, ioUrls, mainPromise>>

\* the node delivers, on an operation's event, the response it produced for
\* the request of send `origin`
ResponseEvent(op, response, origin) ==
    /\ ~crashed /\ sock = "connected"
    /\ calls[origin].op = op /\ Emitted(origin)
    /\ Commit(Deliver(St, op, response))
    /\ obs' = [obs EXCEPT !.call = Answered(op, response, origin)]
    /\ UNCHANGED <<mainPc, socketConnection, sock, challenges, operatorKeyOk, selection, ioUrls, mainPromise>>

\* the session on the connection does not depend on which node the draws
\* selected: Spec follows it for one draw, SelectSpec follows every draw
SessionDraws == {r \in Draws : r = 0}

Next ==
    \/ \E r \in SessionDraws : MainSmartNodeClient(r)
    \/ \E r \in SessionDraws : smartNodeSocket(r)
    \/ MainAwaitAuth
    \/ MainCleanup
    \/ \E c \in CallIds, args \in {"valid", "invalid"} : CallSwapTransactionRequest(c, args)
    \/ \E c \in CallIds, args \in ArgKinds : CallSwapTransactionExecute(c, args)
    \/ \E c \in CallIds : TimerFire(c)
    \/ Connect
    \/ \E ch \in Challenges : ChallengeEvent(ch)
    \/ \E v \in BOOLEAN : Verdict(v)
    \/ \E r \in Reasons : Disconnect(r)
    \/ \E e \in ErrorArgs : SocketError(e)
    \/ \E op \in Ops, r \in Responses, c \in CallIds : ResponseEvent(op, r, c)

Spec == Init /\ [][Next]_vars

\* timers fire and main's continuations run; the node owes the client nothing
FairSpec ==
    /\ Spec
    /\ \A c \in CallIds : WF_vars(TimerFire(c))
    /\ WF_vars(\E r \in SessionDraws : MainSmartNodeClient(r))
    /\ WF_vars(\E r \in SessionDraws : smartNodeSocket(r))
    /\ WF_vars(MainAwaitAuth)
    /\ WF_vars(MainCleanup)

\* main's own run: its sends are issued by main alone, in its order
MainNext ==
    \/ \E r \in SessionDraws : MainSmartNodeClient(r)
    \/ \E r \in SessionDraws : smartNodeSocket(r)
    \/ MainAfterAuth
    \/ \E txOk \in BOOLEAN : MainAfterRequest(txOk)
    \/ MainAfterSign
    \/ MainAfterExecute
    \/ \E c \in CallIds : TimerFire(c)
    \/ Connect
    \/ \E ch \in Challenges : ChallengeEvent(ch)
    \/ \E v \in BOOLEAN : Verdict(v)
    \/ \E r \in Reasons : Disconnect(r)
    \/ \E e \in ErrorArgs : SocketError(e)
    \/ ErrorsEvent
    \/ \E op \in Ops, r \in Responses, c \in CallIds : ResponseEvent(op, r, c)

MainSpec == Init /\ [][MainNext]_vars

\* the selection of the two endpoints and the handshake, for either network
\* and every value Math.random() may return
SelectInit == Start(NetworkKeys)

SelectNext ==
    \/ \E r \in Draws : MainSmartNodeClient(r)
    \/ \E r \in Draws : smartNodeSocket(r)
    \/ MainAwaitAuth
    \/ Connect
    \/ \E ch \in Challenges : ChallengeEvent(ch)
    \/ \E v \in BOOLEAN : Verdict(v)
    \/ \E r \in Reasons : Disconnect(r)
    \/ ErrorsEvent

SelectSpec == SelectInit /\ [][SelectNext]_vars

\* the class SmartNodeSocket by itself: an object constructed for any node,
\* whose getSocket is called with any path, and the transport of its socket
ProbeNodes ==
    {nodes[net][i] : net \in Networks, i \in 1 .. 4}
        \cup {[operator |-> "0.0.2", url |-> <<"http://", "localhost:3000">>],
              [operator |-> "0.0.3", url |-> <<"https://", "node.example:8443">>]}

Paths == {"gateway", "events", "admin"}

ClassInit ==
    /\ Loaded
    /\ mainPc = "library"
    /\ mainPromise = NotCreated
    /\ network = "mainnet"
    /\ socketNode \in ProbeNodes

\* nodeSocket.getSocket(path); io() starts connecting the socket it creates
GetSocketCall(path) ==
    /\ ~crashed /\ mainPc = "library"
    /\ ioUrls' = getSocket(ioUrls, socketNode, path)
    /\ sock' = IF Len(ioUrls') > Len(ioUrls) THEN "connecting" ELSE sock
    /\ obs' = [obs EXCEPT !.paths = @ \cup {path}]
    /\ UNCHANGED <<mainPc, socketConnection, listeners, authPromise, calls, wire,
                   crashed, challenges, operatorKeyOk, selection, mainPromise>>

ClassNext ==
    \/ \E path \in Paths : GetSocketCall(path)
    \/ Connect
    \/ \E r \in Reasons : Disconnect(r)

ClassSpec == ClassInit /\ [][ClassNext]_vars

\* ------------------------------------------------------------- properties
Used == {c \in CallIds : ~Unused(c)}

\* the settlements that come from the four racing events of a send
EventKinds == {"payload", "response", "INVALID_FORMAT", "MISSING_PAYLOAD", "SERVER",
               "SOCKET_ERROR", "SOCKET_DISCONNECT", "TIMEOUT"}

EventSettles(c) ==
    LET FromEvent(k) == k \in EventKinds IN SelectSeq(calls[c].settles, FromEvent)

Owned(c) ==
    {e \in Events : \E i \in 1 .. Len(listeners[e]) : listeners[e][i].owner = c}

Emissions(c) == {i \in 1 .. Len(wire) : wire[i].call = c}

\* C1: of the response, 'error', 'disconnect' and deadline of one send at most
\* one reaches the promise's settle functions, and the promise holds the
\* outcome of the first settle call ever made for it.
C1_SettledAtMostOnce ==
    \A c \in Used :
        /\ Len(EventSettles(c)) <= 1
        /\ calls[c].settles # <<>> =>
               /\ Settled(c)
               /\ calls[c].promise.kind = calls[c].settles[1]

\* a send resolved by its response, after which the server closed the socket
\* ('disconnect' fired later and changed nothing)
C1_Witness ==
    \E c \in Used :
        /\ calls[c].promise.kind = "payload"
        /\ calls[c].settles = <<"payload">>
        /\ sock = "closed" /\ mainPc = "step5"

\* C2: a settled send owns no listener on the socket; so when every send
\* issued has settled, only the handlers of smartNodeSocket (if any) remain.
C2_NoListenerAfterSettlement ==
    /\ \A c \in Used : Settled(c) => Owned(c) = {}
    /\ (\A c \in Used : Settled(c)) =>
           \A e \in Events : \A i \in 1 .. Len(listeners[e]) :
               listeners[e][i].owner = 0

\* a send that had registered its listeners and was settled by a disconnect
C2_Witness ==
    \E c \in Used : calls[c].promise.kind = "SOCKET_DISCONNECT" /\ Owned(c) = {}

\* C3: at most one send per operation name is in flight, and a send issued
\* while one of the same name is in flight is rejected without a wire request.
C3_OnePendingPerName ==
    \A c, d \in Used :
        (c # d /\ calls[c].op = calls[d].op) => ~(InFlight(c) /\ InFlight(d))

\* C4: a send issued while the connection is not Authenticated is rejected at
\* once and emits nothing; no operation message is emitted in another state.
C4_NoSendUnlessAuthenticated ==
    /\ \A c \in Used : ~obs.call[c].auth => (Settled(c) /\ Emissions(c) = {})
    /\ \A i \in 1 .. Len(wire) : wire[i].ev \in Ops => wire[i].auth

\* C5: whichever of verdict and 'disconnect' occurs first while the
\* authentication promise is pending settles it.
C5_AuthSettledByFirst ==
    obs.authFirst # "none" => authPromise.state \in {"fulfilled", "rejected"}

\* C6: a pending authentication promise is eventually settled, whatever the
\* node does or fails to send.
C6_AuthEventuallySettles ==
    (authPromise.state = "pending") ~> (authPromise.state # "pending")

\* C7: every send that was called eventually settles, given only that its
\* timer fires.
C7_SendEventuallySettles ==
    \A c \in CallIds : (calls[c].op # "none") ~> Settled(c)

\* C8: a send in flight when 'disconnect' fired is rejected with code
\* SOCKET_DISCONNECT and carries the reason delivered with the event.
C8_DisconnectRejectsWithReason ==
    \A c \in Used :
        obs.call[c].hit.kind = "disconnect" =>
            calls[c].promise =
                WithProps(Rejected("SOCKET_DISCONNECT", "SOCKET_DISCONNECT",
                                   obs.call[c].hit.arg),
                          {"code", "reason"})

C8_Witness ==
    \E c \in Used :
        /\ obs.call[c].hit.kind = "disconnect"
        /\ obs.call[c].hit.arg = "transport close"
        /\ calls[c].promise.state = "rejected"

\* C9: a swapPoolRequest whose timer fired while it was in flight is rejected
\* with the timeout error, and its one emission precedes its settlement.
C9_TimeoutRejects ==
    \A c \in Used :
        (calls[c].op = "swapPoolRequest" /\ obs.call[c].timedOut) =>
            /\ calls[c].promise = Rejected("TIMEOUT", "none", "none")
            /\ Cardinality(Emissions(c)) = 1
            /\ \A i \in Emissions(c) : ~wire[i].late

C9_Witness ==
    \E c \in Used :
        /\ calls[c].op = "swapPoolRequest" /\ obs.call[c].timedOut
        /\ calls[c].timeout = "fired"

\* C10: when 'error' or 'disconnect' fires while several sends are in flight,
\* each of them is rejected with SOCKET_ERROR or SOCKET_DISCONNECT.
C10_ConnectionErrorSettlesAll ==
    \A c \in Used :
        obs.call[c].hit.multi =>
            /\ calls[c].promise.state = "rejected"
            /\ obs.call[c].hit.kind = "error" => calls[c].promise.code = "SOCKET_ERROR"
            /\ obs.call[c].hit.kind = "disconnect" =>
                   calls[c].promise.code = "SOCKET_DISCONNECT"

\* C11: a response with status 'success' resolves a swapPoolRequest with the
\* response's payload and a swapPoolExecute with the response itself; a
\* response with any other status rejects the send with an error that carries
\* the response and whose code is the response's errorCode, else its code,
\* else the operation's default code, and whose message is the response's
\* error, else its message, else the operation's default message.
C11_ResponseOutcome ==
    \A c \in Used :
        LET r == obs.call[c].resp
            p == calls[c].promise
        IN r.obj =>
            /\ (r.status = "success" /\ r.payload /\ calls[c].op = "swapPoolRequest")
                   => p = Fulfilled("payload")
            /\ (r.status = "success" /\ calls[c].op = "swapPoolExecute")
                   => p = Fulfilled("response")
            /\ r.status # "success" =>
                   /\ p.state = "rejected" /\ p.kind = "SERVER"
                   /\ {"code", "response"} \subseteq p.props
                   /\ p.code = IF r.errorCode # "none" THEN r.errorCode
                               ELSE IF r.code # "none" THEN r.code
                               ELSE DefaultCode(calls[c].op)
                   /\ p.reason = IF r.error # "none" THEN r.error
                                 ELSE IF r.message # "none" THEN r.message
                                 ELSE DefaultMessage(calls[c].op)

\* a swapPoolExecute answered with success, and a swapPoolRequest answered with
\* a failure that names only `message` and `code`
C11_Witness ==
    \E c, d \in Used :
        /\ calls[c].op = "swapPoolExecute" /\ obs.call[c].resp.status = "success"
        /\ calls[c].promise.state = "fulfilled"
        /\ calls[d].op = "swapPoolRequest" /\ obs.call[d].resp.status = "error"
        /\ obs.call[d].resp.errorCode = "none" /\ calls[d].promise.code = "C1"

\* C11 as stated: a success response that has a payload resolves the send, of
\* either operation, with that payload.
C11_SuccessResolvesWithPayload ==
    \A c \in Used :
        (obs.call[c].resp.status = "success" /\ obs.call[c].resp.payload) =>
            calls[c].promise = Fulfilled("payload")

\* C12: a send answered with a value that is no object, or with a success
\* response that has no payload, is rejected with the invalid-format or the
\* missing-payload error; it is never resolved.
C12_MalformedIsProtocolViolation ==
    \A c \in Used :
        LET r == obs.call[c].resp IN
        (r.status # "unanswered" /\ (~r.obj \/ (r.status = "success" /\ ~r.payload)))
            => /\ calls[c].promise.state = "rejected"
               /\ calls[c].promise.kind \in {"INVALID_FORMAT", "MISSING_PAYLOAD"}

\* the structured fields of the error a send was rejected with
Fields(c) == <<calls[c].promise.code, calls[c].promise.props>>

\* C13: the errors of a timeout, of a server rejection and of a disconnect
\* differ pairwise in their structured fields (the code and the properties
\* set on the Error), whatever code and message the server supplied.
C13_CausesDistinguishable ==
    \A c, d \in Used :
        ( /\ calls[c].promise.kind \in {"TIMEOUT", "SERVER", "SOCKET_DISCONNECT"}
          /\ calls[d].promise.kind \in {"TIMEOUT", "SERVER", "SOCKET_DISCONNECT"}
          /\ calls[c].promise.kind # calls[d].promise.kind )
            => Fields(c) # Fields(d)

\* a server rejection whose code is SOCKET_DISCONNECT next to a send rejected
\* by a disconnect
C13_Witness ==
    \E c, d \in Used :
        /\ calls[c].promise.kind = "SERVER"
        /\ calls[c].promise.code = "SOCKET_DISCONNECT"
        /\ calls[d].promise.kind = "SOCKET_DISCONNECT"
        /\ calls[d].promise.reason = "transport close"

\* C15: once a send has settled, on whichever path, its timer is no longer
\* pending.
C15_SettledTimerNotPending ==
    \A c \in Used : Settled(c) => calls[c].timeout # "pending"

\* the listeners call c has on the socket
ListenersOf(ls, c) ==
    LET Mine(hd) == hd.owner = c IN [e \in Events |-> SelectSeq(ls[e], Mine)]

\* C14: the step in which a response is delivered to a send in flight (d)
\* leaves a send of the other operation that is in flight (c) as it was: its
\* promise, its hasResolved flag, its timer and its three listeners.
C14_DistinctNamesIndependent ==
    [][\A c, d \in CallIds :
          ( /\ InFlight(c) /\ InFlight(d) /\ calls[c].op # calls[d].op
            /\ obs'.call[d].resp # obs.call[d].resp )
              => /\ calls'[c] = calls[c]
                 /\ ListenersOf(listeners', c) = ListenersOf(listeners, c)]_vars

\* the second send was resolved by its response while the first, of the other
\* operation, is still in flight with its timer and its listeners
C14_Witness ==
    \E c, d \in Used :
        /\ c < d /\ calls[c].op # calls[d].op
        /\ obs.call[d].resp.status = "success" /\ calls[d].promise.state = "fulfilled"
        /\ InFlight(c) /\ calls[c].timeout = "pending"
        /\ Owned(c) = {calls[c].op, "error", "disconnect"}

\* C16: a verdict with isValidSignature true that arrives while the
\* authentication promise is pending resolves it with success, which main
\* stores as the connection its sends use.
C16_ValidVerdictResolves ==
    obs.authVerdict = "valid" =>
        /\ authPromise = Fulfilled("authenticated")
        /\ mainPc \in {"step5", "done"} => socketConnection

\* the node answered the emitted 'authenticate' with a valid verdict
C16_Witness ==
    /\ obs.authVerdict = "valid" /\ authPromise.state = "fulfilled"
    /\ \E i \in 1 .. Len(wire) : wire[i].ev = "authenticate"
    /\ Authenticated /\ socketConnection

\* C17: a verdict with isValidSignature false that arrives while the
\* authentication promise is pending rejects it with the error naming the
\* operator id; socketConnection is then never set, and every send fails
\* without emitting.
C17_InvalidVerdictRejects ==
    obs.authVerdict = "invalid" =>
        /\ authPromise = Rejected("AUTH_FAILED", "none", operatorId)
        /\ ~socketConnection
        /\ \A c \in Used : calls[c].promise.state = "rejected" /\ Emissions(c) = {}

\* main received the rejection and a send was tried afterwards
C17_Witness ==
    /\ obs.authVerdict = "invalid" /\ mainPc = "rejected"
    /\ \E c \in Used : calls[c].promise.kind = "INITIALIZATION_ERROR"

\* the 'authenticate' messages emitted, in order
Answers == LET IsAnswer(m) == m.ev = "authenticate" IN SelectSeq(wire, IsAnswer)

\* the challenges delivered that the handler could sign, in order
Signable ==
    LET CanSign(ch) == ch.signedData /\ operatorKeyOk
    IN SelectSeq(obs.challenges, CanSign)

C19_WireOrder ==
    \A i \in 1 .. Len(wire) :
        /\ wire[i].ev = "swapPoolRequest" => obs.authVerdict = "valid"
        /\ wire[i].ev = "swapPoolExecute" =>
               \E j \in 1 .. i - 1 :
                   /\ wire[j].ev = "swapPoolRequest"
                   /\ obs.call[wire[j].call].resp.status = "success"
                   /\ calls[wire[j].call].promise.state = "fulfilled"

\* main emitted swapPoolExecute
C19_Witness ==
    /\ mainPc = "await53"
    /\ \E i \in 1 .. Len(wire) : wire[i].ev = "swapPoolExecute"

\* C20: the HTTP client and the socket of one run of main are bound to the
\* same node.
C20_OneEndpointPerRun ==
    (httpNode # NoNode /\ socketNode # NoNode) => httpNode = socketNode

\* the node is an entry of the catalog of the network
InCatalog(node, net) == \E i \in 1 .. Len(nodes[net]) : nodes[net][i] = node

\* C21: for each of the two networks, the node a selection returned is an
\* entry of that network's catalog and of no other network's catalog.
C21_NodeOfTheNetwork ==
    \A node \in {httpNode, socketNode} \ {NoNode} :
        /\ network \in Networks
        /\ InCatalog(node, network)
        /\ \A other \in Networks \ {network} : ~InCatalog(node, other)

\* both selections were made for the testnet, at the two ends of its catalog
C21_Witness ==
    /\ network = "testnet"
    /\ httpNode = nodes["testnet"][Len(nodes["testnet"])]
    /\ socketNode = nodes["testnet"][1]

\* C22: a run for a network key that is not in the catalog ends with an
\* InvalidNetwork error handed to the caller, and creates neither a socket nor
\* an HTTP client.
C22_InvalidNetworkError ==
    (network \notin Networks /\ mainPromise.state = "rejected") =>
        /\ mainPromise.kind = "InvalidNetwork"
        /\ httpNode = NoNode
        /\ socketNode = NoNode
        /\ ioUrls = <<>>

\* C23: once the node's verdict rejected the handshake, the call of
\* smartNodeSocket makes no further selection, no further connection and emits
\* no further 'authenticate'.
C23_RejectionIsTerminal ==
    [][obs.authVerdict = "invalid" =>
           /\ obs'.selections = obs.selections
           /\ ~(sock # "connecting" /\ sock' = "connecting")
           /\ Len(Answers') = Len(Answers)]_vars

\* C24: when the selected node fails (its connection errors, drops or stops
\* answering), the run selects again instead of failing.
C24_FailedNodeIsRetried ==
    (/\ mainPromise.state = "rejected"
     /\ mainPromise.kind \in {"SOCKET_ERROR", "SOCKET_DISCONNECT", "TIMEOUT"})
        => obs.selections > 1

\* C25: an 'errors' event received while authentication is pending rejects the
\* promise of smartNodeSocket and closes the connection.
C25_ErrorsEventRejects ==
    obs.authError => (authPromise.state = "rejected" /\ sock = "closed")

\* C26: whenever main has terminated after authentication succeeded, the
\* listeners are removed and the socket is disconnected.
C26_CleanedUpAfterAuth ==
    (mainPromise.state \in {"fulfilled", "rejected"} /\ authPromise.state = "fulfilled")
        => (listeners = NoListeners /\ sock = "closed")

\* C27: a SmartNodeSocket owns at most one transport: none before the first
\* getSocket, one after it, and every later getSocket, whatever its path,
\* leaves that one in place.
C27_OneTransport ==
    [][/\ Len(ioUrls') <= 1
       /\ ioUrls # <<>> => ioUrls' = ioUrls
       /\ obs'.paths # {} => ioUrls' # <<>>]_vars

\* getSocket was called with two different paths
C27_Witness ==
    /\ mainPc = "library"
    /\ Cardinality(obs.paths) >= 2
    /\ Len(ioUrls) = 1

\* the scheme io() gets for the scheme of the node's base address
WsScheme(scheme) ==
    CASE scheme = "https://" -> "wss://"
      [] scheme = "http://" -> "ws://"
      [] OTHER -> scheme

\* C28: the transport address is the node's base address with https:// turned
\* into wss:// and http:// into ws://, the rest of it unchanged, followed by
\* "/" and the path of the call that created the socket, which is "gateway"
\* for a socket only ever asked for with that path.
C28_TransportAddress ==
    \A i \in 1 .. Len(ioUrls) :
        LET url == socketNode.url
            address == ioUrls[i]
        IN  /\ Len(address) = Len(url) + 2
            /\ address[1] = WsScheme(url[1])
            /\ SubSeq(address, 2, Len(url)) = SubSeq(url, 2, Len(url))
            /\ address[Len(url) + 1] = "/"
            /\ address[Len(url) + 2] \in obs.paths
            /\ obs.paths = {"gateway"} => address[Len(url) + 2] = "gateway"

\* a socket created for a node with a plain http base address
C28_Witness ==
    /\ socketNode.url = <<"http://", "localhost:3000">>
    /\ ioUrls = << <<"ws://", "localhost:3000", "/", "gateway">> >>

\* C29: no 'authenticate' response is emitted once the authentication promise
\* has settled.
C29_NoAnswerAfterSettlement ==
    \A i \in 1 .. Len(wire) : wire[i].ev = "authenticate" => ~wire[i].late

\* C30: no send is settled by a response the node produced for an earlier send
\* of the same name that had timed out before this send was issued.
C30_SettledByOwnResponse ==
    \A c \in Used :
        obs.call[c].resp.status # "unanswered" =>
            obs.call[c].origin \notin obs.call[c].after

\* the sends a step settles with the response it delivers
SettledByResponse ==
    {c \in CallIds : /\ calls[c].promise.state = "pending"
                     /\ calls'[c].promise.state # "pending"
                     /\ obs'.call[c].resp # obs.call[c].resp}

\* C31: one response event delivered by the socket settles at most one
\* pending send.
C31_OneSendPerResponse ==
    [][Cardinality(SettledByResponse) <= 1]_vars

\* C32: a send rejected for its arguments has emitted no request and has none
\* of its listeners attached.
C32_InvalidArgsLeaveNothing ==
    \A c \in CallIds :
        calls[c].promise.kind = "INVALID_ARGS" =>
            /\ calls[c].promise.state = "rejected"
            /\ Emissions(c) = {}
            /\ Owned(c) = {}

\* both operations were called with invalid arguments on an authenticated,
\* connected socket
C32_Witness ==
    /\ sock = "connected"
    /\ \E c, d \in CallIds :
           /\ calls[c].op = "swapPoolRequest" /\ calls[d].op = "swapPoolExecute"
           /\ calls[c].promise.kind = "INVALID_ARGS"
           /\ calls[d].promise.kind = "INVALID_ARGS"
           /\ obs.call[c].auth /\ obs.call[d].auth

\* the challenge a step delivers makes the handler throw: it has no signedData
\* to read the signature from, or the operator's private key does not decode
ThrowingChallenge ==
    /\ Len(obs'.challenges) > Len(obs.challenges)
    /\ \/ ~obs'.challenges[Len(obs'.challenges)].signedData
       \/ ~operatorKeyOk

SettledNow ==
    {c \in CallIds : /\ calls[c].promise.state = "pending"
                     /\ calls'[c].promise.state # "pending"}

\* the listeners that do not belong to the sends of S
ListenersBut(ls, S) ==
    LET Other(hd) == hd.owner \notin S IN [e \in Events |-> SelectSeq(ls[e], Other)]

\* C34: the step that settles a send leaves every listener that is not of a
\* send settled in that step attached and in place: the five of
\* smartNodeSocket and those of any other send.
C34_SettlementRemovesOwnListenersOnly ==
    [][SettledNow # {} =>
           ListenersBut(listeners', SettledNow) = ListenersBut(listeners, SettledNow)]_vars

\* one send was settled by its response while a send of the other operation is
\* in flight with its three listeners, beside the five of smartNodeSocket
C34_Witness ==
    \E c, d \in Used :
        /\ c # d
        /\ obs.call[c].resp.status = "success" /\ Settled(c) /\ Owned(c) = {}
        /\ calls[d].promise.state = "pending" /\ ~calls[d].hasResolved
        /\ Owned(d) = {calls[d].op, "error", "disconnect"}
        /\ \A i \in 1 .. Len(AuthHandlers) :
               \E k \in 1 .. Len(listeners[AuthHandlers[i]]) :
                   listeners[AuthHandlers[i]][k].owner = 0

\* the handler h of owner is attached to event e, once
Attached(e, owner, h) ==
    Cardinality({i \in 1 .. Len(listeners[e]) : listeners[e][i] = Handler(owner, h)}) = 1

\* C35: from the emission of its request on, as long as a send is pending on
\* an open socket, its response, error and disconnect handlers are attached
\* and its deadline timer is running.
C35_ListeningOnceEmitted ==
    \A c \in CallIds :
        (/\ Emissions(c) # {}
         /\ calls[c].promise.state = "pending"
         /\ ~crashed
         /\ sock # "closed")
            => /\ Attached(calls[c].op, c, "responseHandler")
               /\ Attached("error", c, "errorHandler")
               /\ Attached("disconnect", c, "disconnectHandler")
               /\ calls[c].timeout = "pending"

\* two sends of the same operation have emitted their requests and are pending
C35_Witness ==
    /\ sock = "connected"
    /\ \E c, d \in CallIds :
           /\ c # d
           /\ calls[c].op = "swapPoolExecute" /\ calls[d].op = "swapPoolExecute"
           /\ Emissions(c) # {} /\ Emissions(d) # {}
           /\ calls[c].promise.state = "pending"
           /\ calls[d].promise.state = "pending"

\* C36: while the socket of smartNodeSocket is connecting or connected, each of
\* 'connect', 'disconnect', 'errors', 'authenticate' and 'authentication' has
\* the handler of smartNodeSocket attached, so a challenge or a verdict never
\* arrives without its handler.
C36_HandlersBeforeConnect ==
    sock \in {"connecting", "connected"} =>
        \A e \in {"connect", "disconnect", "errors", "authenticate", "authentication"} :
            Attached(e, 0, e)

\* the node's challenge arrived and was answered, and its verdict settled the
\* promise
C36_Witness ==
    /\ obs.challenges # <<>>
    /\ Answers # <<>>
    /\ obs.authVerdict = "valid"
    /\ authPromise.state = "fulfilled"

\* a failure main has met: the authentication, or a send it awaited, rejected
MainFailure ==
    \/ authPromise.state = "rejected"
    \/ \E c \in Used : calls[c].promise.state = "rejected"

\* C37: main resolves with 'all done' (exit code 0) only if the node's verdict
\* was valid and swapPoolRequest and swapPoolExecute were both answered with
\* success; once main has left its last step after a failure of the
\* authentication or of a send, it has rejected (exit code 1).
C37_OutcomeMatchesSwap ==
    /\ ExitCode = 0 =>
           /\ mainPromise.kind = "all done"
           /\ obs.authVerdict = "valid" /\ authPromise.state = "fulfilled"
           /\ calls[1].op = "swapPoolRequest" /\ calls[2].op = "swapPoolExecute"
           /\ \A c \in {1, 2} : /\ calls[c].promise.state = "fulfilled"
                                /\ obs.call[c].resp.status = "success"
    /\ (mainPc \in {"done", "rejected"} /\ MainFailure) =>
           (mainPromise.state = "rejected" /\ ExitCode = 1)
    /\ mainPc = "done" <=> mainPromise.state = "fulfilled"
    /\ mainPc = "rejected" <=> mainPromise.state = "rejected"

\* a run of main that ended with 'all done'
C37_Witness ==
    /\ mainPc = "done"
    /\ ExitCode = 0
    /\ obs.call[1].resp.status = "success"
    /\ obs.call[2].resp.status = "success"

====
